---- MODULE Spec2Model ----
(***************************************************************************)
(* Model of src/lm_desktop_assistant.py: the StreamWorker thread (one per  *)
(* submission), the Qt event queue that carries its signals to the GUI     *)
(* thread, and the AIAssistantWindow handlers that fold them into the      *)
(* history, the reply buffer and the conversation display.                 *)
(*                                                                         *)
(* A text is a sequence of characters, each a one-character string.  A     *)
(* character outside ASCII is written by its code point ("U+3002"), and a  *)
(* run of characters whose inside no operation looks at (a JSON payload,   *)
(* the "data:" marker, the "[DONE]" sentinel, an error message) is one     *)
(* element of the sequence.                                                *)
(***************************************************************************)
EXTENDS Integers, Sequences, FiniteSets, TLC

\* ------------------------------------------------------------------ bounds
MaxSessions == 2
MaxLines == 2
MaxSeqLines == 3
\* Length of the reply texts, and lines per reply, in the model of the text
\* functions
MaxTextLen == 6
MaxTextLines == 1
\* Length, in characters and code fences, of the reply texts with markup
MaxMarkupLen == 4

\* ------------------------------------------------------------ text helpers
\* str.strip() and the regex class \s
IsWS(c) == c \in {" ", "\n", "\t", "\r"}

RECURSIVE LStrip(_)
LStrip(t) == IF t # <<>> /\ IsWS(Head(t)) THEN LStrip(Tail(t)) ELSE t

RECURSIVE RStrip(_)
RStrip(t) ==
    IF t # <<>> /\ IsWS(t[Len(t)]) THEN RStrip(SubSeq(t, 1, Len(t) - 1)) ELSE t

Trim(t) == RStrip(LStrip(t))

\* str.lower() on the letters the role labels are made of (flags=re.I)
Lower(c) ==
    CASE c = "A" -> "a" [] c = "I" -> "i" [] c = "U" -> "u" [] c = "S" -> "s"
      [] c = "E" -> "e" [] c = "R" -> "r" [] c = "T" -> "t" [] c = "N" -> "n"
      [] OTHER -> c

LowerText(t) == [i \in 1..Len(t) |-> Lower(t[i])]

StartsWith(t, p) == Len(t) >= Len(p) /\ SubSeq(t, 1, Len(p)) = p

\* The alternatives of the role-label regex, lower-cased:
\* AI<U+FF1A> AI: <U+52A9><U+624B><U+FF1A> <U+52A9><U+624B>: assistant<U+FF1A>
\* assistant: <U+7528><U+6237><U+FF1A> User:
RoleLabels ==
    { <<"a", "i", "U+FF1A">>, <<"a", "i", ":">>,
      <<"U+52A9", "U+624B", "U+FF1A">>, <<"U+52A9", "U+624B", ":">>,
      <<"a", "s", "s", "i", "s", "t", "a", "n", "t", "U+FF1A">>,
      <<"a", "s", "s", "i", "s", "t", "a", "n", "t", ":">>,
      <<"U+7528", "U+6237", "U+FF1A">>, <<"u", "s", "e", "r", ":">> }

\* re.sub(r'^\s*(label)\s*', '', text, flags=re.I): leading whitespace, one
\* label and the whitespace after it are removed; without a label nothing is.
_strip_role_prefixes(text) ==
    LET body == LStrip(text)
        hit == {l \in RoleLabels : StartsWith(LowerText(body), l)}
    IN IF text = <<>> \/ hit = {} THEN text
       ELSE LStrip(SubSeq(body, Len(CHOOSE l \in hit : TRUE) + 1, Len(body)))

\* The delimiter class of re.split(r'([U+3002 U+FF01 U+FF1F \n]+)', text)
IsDelim(c) == c \in {"U+3002", "U+FF01", "U+FF1F", "\n"}

\* First index >= i whose character is not in the run (delimiters or not).
RECURSIVE RunEnd(_, _, _)
RunEnd(t, i, inDelim) ==
    IF i > Len(t) \/ IsDelim(t[i]) # inDelim THEN i ELSE RunEnd(t, i + 1, inDelim)

RECURSIVE Join(_)
Join(units) == IF units = <<>> THEN <<>> ELSE Head(units) \o Join(Tail(units))

\* Mutant of KeepUnit: a unit is dropped when it equals any unit kept so far.
KeepUnit_drop_any_repeat(seq, full) ==
    IF full = <<>> \/ (\E n \in 1..Len(seq) : seq[n] = full)
    THEN seq ELSE Append(seq, full)

\* if not full: continue; if seq and seq[-1] == full: continue; seq.append(full)
KeepUnit(seq, full) ==
    IF full = <<>> \/ (seq # <<>> /\ seq[Len(seq)] = full)
    THEN seq ELSE Append(seq, full)

\* The loop over parts[i], parts[i+1]: seq is the list of kept units.
RECURSIVE CollapseFrom(_, _, _)
CollapseFrom(t, i, seq) ==
    LET j == RunEnd(t, i, FALSE)
        k == RunEnd(t, j, TRUE)
        sent == Trim(SubSeq(t, i, j - 1))
        delim == SubSeq(t, j, k - 1)
        full == Trim(sent \o delim)
        seq2 == KeepUnit(seq, full)
    IN IF k > Len(t) THEN seq2 ELSE CollapseFrom(t, k, seq2)

_collapse_consecutive_sentences(text) ==
    IF text = <<>> THEN text ELSE Join(CollapseFrom(text, 1, <<>>))

\* ------------------------------------------------- regular expressions (re)
\* A pattern is a tree of nodes; a text is matched by backtracking, the
\* alternatives tried in the order re tries them.
Lit(s) == [k |-> "lit", s |-> s]
In(set) == [k |-> "set", neg |-> FALSE, set |-> set]
NotIn(set) == [k |-> "set", neg |-> TRUE, set |-> set]
AnyChar == NotIn({})
Dot == NotIn({"\n"})
WsChars == {" ", "\t", "\n", "\r"}
Ws == In(WsChars)
Cat(ns) == [k |-> "cat", ns |-> ns]
Alt(a, b) == [k |-> "alt", ns |-> <<a, b>>]
Rep(n, lo, hi, greedy) == [k |-> "rep", ns |-> <<n>>, lo |-> lo, hi |-> hi, greedy |-> greedy]
Many == 99
Grp(n) == [k |-> "grp", ns |-> <<n>>]
Bol == [k |-> "bol"]
Eol == [k |-> "eol"]
NotBehind(c) == [k |-> "notbehind", c |-> c]
NotAhead(c) == [k |-> "notahead", c |-> c]

At(e, cap) == [e |-> e, cap |-> cap]

RECURSIVE Match(_, _, _, _), MatchCat(_, _, _, _), MatchCatFrom(_, _, _),
          MatchRep(_, _, _, _, _), MatchRepFrom(_, _, _, _, _)

\* The ways node n matches t from position i on, the preferred way first:
\* each the position after the match and the span of the group
Match(n, t, i, cap) ==
    CASE n.k = "lit" ->
            IF i + Len(n.s) - 1 <= Len(t) /\ SubSeq(t, i, i + Len(n.s) - 1) = n.s
            THEN <<At(i + Len(n.s), cap)>> ELSE <<>>
      [] n.k = "set" ->
            IF i <= Len(t) /\ ((t[i] \in n.set) # n.neg) THEN <<At(i + 1, cap)>> ELSE <<>>
      [] n.k = "cat" -> MatchCat(n.ns, t, i, cap)
      [] n.k = "alt" -> Match(n.ns[1], t, i, cap) \o Match(n.ns[2], t, i, cap)
      [] n.k = "rep" -> MatchRep(n, t, i, cap, 0)
      [] n.k = "grp" ->
            LET rs == Match(n.ns[1], t, i, cap)
            IN [j \in 1..Len(rs) |-> At(rs[j].e, <<i, rs[j].e>>)]
      [] n.k = "bol" -> IF i = 1 \/ t[i - 1] = "\n" THEN <<At(i, cap)>> ELSE <<>>
      [] n.k = "eol" -> IF i = Len(t) + 1 \/ t[i] = "\n" THEN <<At(i, cap)>> ELSE <<>>
      [] n.k = "notbehind" -> IF i = 1 \/ t[i - 1] # n.c THEN <<At(i, cap)>> ELSE <<>>
      [] n.k = "notahead" -> IF i > Len(t) \/ t[i] # n.c THEN <<At(i, cap)>> ELSE <<>>

MatchCat(ns, t, i, cap) ==
    IF ns = <<>> THEN <<At(i, cap)>>
    ELSE MatchCatFrom(Match(Head(ns), t, i, cap), Tail(ns), t)

MatchCatFrom(rs, ns, t) ==
    IF rs = <<>> THEN <<>>
    ELSE MatchCat(ns, t, Head(rs).e, Head(rs).cap) \o MatchCatFrom(Tail(rs), ns, t)

MatchRep(n, t, i, cap, count) ==
    LET once == SelectSeq(Match(n.ns[1], t, i, cap), LAMBDA r : r.e > i)
        more == IF count < n.hi THEN MatchRepFrom(once, n, t, count + 1, 0) ELSE <<>>
        stop == IF count >= n.lo THEN <<At(i, cap)>> ELSE <<>>
    IN IF n.greedy THEN more \o stop ELSE stop \o more

MatchRepFrom(rs, n, t, count, dummy) ==
    IF rs = <<>> THEN <<>>
    ELSE MatchRep(n, t, Head(rs).e, Head(rs).cap, count) \o MatchRepFrom(Tail(rs), n, t, count, dummy)

\* A replacement template: its pieces, "\\1" standing for the group
RECURSIVE Fill(_, _, _)
Fill(tmpl, t, cap) ==
    IF tmpl = <<>> THEN <<>>
    ELSE (IF Head(tmpl) = "\\1" THEN SubSeq(t, cap[1], cap[2] - 1) ELSE <<Head(tmpl)>>)
         \o Fill(Tail(tmpl), t, cap)

\* re.sub(n, tmpl, t) from position i on (no pattern here matches the empty text)
RECURSIVE SubFrom(_, _, _, _)
SubFrom(n, tmpl, t, i) ==
    IF i > Len(t) THEN <<>>
    ELSE LET ms == Match(n, t, i, <<1, 1>>)
         IN IF ms = <<>> \/ ms[1].e = i THEN <<t[i]>> \o SubFrom(n, tmpl, t, i + 1)
            ELSE Fill(tmpl, t, ms[1].cap) \o SubFrom(n, tmpl, t, ms[1].e)

Sub(n, tmpl, t) == SubFrom(n, tmpl, t, 1)

\* ---------------------------------------------------- _format_display_text
Star(n) == Rep(n, 0, Many, TRUE)
Plus(n) == Rep(n, 1, Many, TRUE)
Opt(n) == Rep(n, 0, 1, TRUE)
Fence == Lit(<<"U+0060", "U+0060", "U+0060">>)

\* r'FENCE([\s\S]*?)FENCE', FENCE being three backticks
CodeBlock == Cat(<<Fence, Grp(Rep(AnyChar, 0, Many, FALSE)), Fence>>)
\* r'(?m)^\s{0,3}#{1,6}\s*(.+)$'
Heading == Cat(<<Bol, Rep(Ws, 0, 3, TRUE), Rep(In({"#"}), 1, 6, TRUE), Star(Ws),
                 Grp(Plus(Dot)), Eol>>)
\* r'(?m)^\s*>+\s*(.+)$'
Quote == Cat(<<Bol, Star(Ws), Plus(In({">"})), Star(Ws), Grp(Plus(Dot)), Eol>>)
\* r'(?m)^\s*\|?(?:\s*:?-+:?\s*\|)+\s*$'
TableRule ==
    Cat(<<Bol, Star(Ws), Opt(In({"|"})),
          Plus(Cat(<<Star(Ws), Opt(In({":"})), Plus(In({"-"})), Opt(In({":"})), Star(Ws),
                     In({"|"})>>)),
          Star(Ws), Eol>>)
\* r'\s*\|\s*'
Pipe == Cat(<<Star(Ws), In({"|"}), Star(Ws)>>)
\* r'(?m)^\s*(-{3,}|\*{3,})\s*$'
Rule == Cat(<<Bol, Star(Ws),
              Grp(Alt(Rep(In({"-"}), 3, Many, TRUE), Rep(In({"*"}), 3, Many, TRUE))),
              Star(Ws), Eol>>)
\* r'(?m)^\s*-\s+(.*)$'
ListItem == Cat(<<Bol, Star(Ws), In({"-"}), Plus(Ws), Grp(Star(Dot)), Eol>>)
\* r'@@HDR@@(.*?)@@ENDHDR@@', re.DOTALL
HeadingMark == Cat(<<Lit(<<"@@HDR@@">>), Grp(Rep(AnyChar, 0, Many, FALSE)), Lit(<<"@@ENDHDR@@">>)>>)
\* r'@@QUOTE@@(.*?)@@ENDQ@@', re.DOTALL
QuoteMark == Cat(<<Lit(<<"@@QUOTE@@">>), Grp(Rep(AnyChar, 0, Many, FALSE)), Lit(<<"@@ENDQ@@">>)>>)
\* r'\*\*(.+?)\*\*'
Bold == Cat(<<Lit(<<"*", "*">>), Grp(Rep(Dot, 1, Many, FALSE)), Lit(<<"*", "*">>)>>)
\* r'(?<!\*)\*(?!\*)(.+?)(?<!\*)\*(?!\*)'
Italic == Cat(<<NotBehind("*"), In({"*"}), NotAhead("*"), Grp(Rep(Dot, 1, Many, FALSE)),
                NotBehind("*"), In({"*"}), NotAhead("*")>>)
\* r'BT(.+?)BT', BT being a backtick
InlineCode == Cat(<<In({"U+0060"}), Grp(Rep(Dot, 1, Many, FALSE)), In({"U+0060"})>>)
\* r'(\s*\n){3,}'
BlankLines == Rep(Cat(<<Star(Ws), In({"\n"})>>), 3, Many, TRUE)

\* html.escape(s): & < > " ' become entities
HtmlEscape(s) ==
    [i \in 1..Len(s) |->
        CASE s[i] = "&" -> "&amp;" [] s[i] = "<" -> "&lt;" [] s[i] = ">" -> "&gt;"
          [] s[i] = "\"" -> "&quot;" [] s[i] = "'" -> "&#x27;" [] OTHER -> s[i]]

CodeMarks == <<"@@CODE0@@", "@@CODE1@@", "@@CODE2@@">>

\* re.sub(CodeBlock, _code_repl, raw): the text with a mark for each block,
\* and the blocks
RECURSIVE ExtractCode(_, _, _)
ExtractCode(t, i, blocks) ==
    IF i > Len(t) THEN [raw |-> <<>>, blocks |-> blocks]
    ELSE LET ms == Match(CodeBlock, t, i, <<1, 1>>)
         IN IF ms = <<>>
            THEN LET r == ExtractCode(t, i + 1, blocks)
                 IN [raw |-> <<t[i]>> \o r.raw, blocks |-> r.blocks]
            ELSE LET r == ExtractCode(t, ms[1].e,
                                      Append(blocks, SubSeq(t, ms[1].cap[1], ms[1].cap[2] - 1)))
                 IN [raw |-> <<CodeMarks[Len(blocks) + 1]>> \o r.raw, blocks |-> r.blocks]

\* str.replace(old, new) for a one-element old
Replace(t, old, new) == Join([i \in 1..Len(t) |-> IF t[i] = old THEN new ELSE <<t[i]>>])

\* Mutant of CodeHtml: the block is put back as it was.
CodeHtml_raw(cb) == <<"<pre style=..><code>">> \o cb \o <<"</code></pre>">>

\* f'<pre style="..."><code>{html.escape(cb)}</code></pre>'
CodeHtml(cb) == <<"<pre style=..><code>">> \o HtmlEscape(cb) \o <<"</code></pre>">>

\* for idx, cb in code_blocks.items(): escaped = escaped.replace(mark, ...)
RECURSIVE RestoreCode(_, _, _)
RestoreCode(escaped, blocks, idx) ==
    IF idx > Len(blocks) THEN escaped
    ELSE RestoreCode(Replace(escaped, CodeMarks[idx], CodeHtml(blocks[idx])), blocks, idx + 1)

_format_display_text(text) ==
    LET raw1 == Sub(Lit(<<"\r", "\n">>), <<"\n">>, text)
        code == ExtractCode(raw1, 1, <<>>)
        raw3 == Sub(Heading, <<"@@HDR@@", "\\1", "@@ENDHDR@@">>, code.raw)
        raw4 == Sub(Quote, <<"@@QUOTE@@", "\\1", "@@ENDQ@@">>, raw3)
        raw5 == Sub(TableRule, <<>>, raw4)
        raw6 == Sub(Pipe, <<" ", "U+2022", " ">>, raw5)
        raw7 == Sub(Rule, <<"@@HR@@">>, raw6)
        raw8 == Sub(ListItem, <<"U+2022", " ", "\\1">>, raw7)
        esc1 == HtmlEscape(raw8)
        esc2 == Sub(HeadingMark, <<"<div style=hdr>", "\\1", "</div>">>, esc1)
        esc3 == Sub(QuoteMark, <<"<div style=quote>", "\\1", "</div>">>, esc2)
        esc4 == Replace(esc3, "@@HR@@", <<"<hr/>">>)
        esc5 == Sub(Bold, <<"<b>", "\\1", "</b>">>, esc4)
        esc6 == Sub(Italic, <<"<i>", "\\1", "</i>">>, esc5)
        esc7 == Sub(InlineCode, <<"<code style=..>", "\\1", "</code>">>, esc6)
        esc8 == RestoreCode(esc7, code.blocks, 1)
        esc9 == Sub(BlankLines, <<"\n", "\n">>, esc8)
    IN IF text = <<>> THEN <<>> ELSE Replace(esc9, "\n", <<"<br/>">>)

\* ------------------------------------------------------------------- JSON
\* The values json.loads can return.  An object is a function from keys.
JNull == [t |-> "null"]
JNum(n) == [t |-> "num", n |-> n]
JStr(s) == [t |-> "str", s |-> s]
JArr(items) == [t |-> "arr", items |-> items]
JObj(f) == [t |-> "obj", f |-> f]
EmptyObj == JObj(<<>>)

\* A run of 600 letters x, kept as one element of a text
LongRun == "x*600"

\* len(text): every element is one character, the long run apart
RECURSIVE PyLen(_)
PyLen(text) ==
    IF text = <<>> THEN 0
    ELSE (IF Head(text) = LongRun THEN 600 ELSE 1) + PyLen(Tail(text))

\* A Python expression either yields a value or raises.
Ok(v) == [ok |-> TRUE, v |-> v]
Raised == [ok |-> FALSE, v |-> JNull]

\* x.get(key, default): only a dict has .get (AttributeError otherwise)
PyGet(x, key, default) ==
    IF x.t # "obj" THEN Raised
    ELSE IF key \in DOMAIN x.f THEN Ok(x.f[key]) ELSE Ok(default)

\* x[0]: IndexError on an empty list or string, KeyError on a dict (JSON keys
\* are strings), TypeError on a number or None
PyIndex0(x) ==
    CASE x.t = "arr" -> IF x.items = <<>> THEN Raised ELSE Ok(x.items[1])
      [] x.t = "str" -> IF x.s = <<>> THEN Raised ELSE Ok(JStr(<<x.s[1]>>))
      [] OTHER -> Raised

\* Python truth value
Truthy(x) ==
    CASE x.t = "null" -> FALSE
      [] x.t = "num" -> x.n # 0
      [] x.t = "str" -> x.s # <<>>
      [] x.t = "arr" -> x.items # <<>>
      [] x.t = "obj" -> DOMAIN x.f # {}
      [] OTHER -> FALSE

\* try: chunk.get("choices", [{}])[0].get(field, {}).get("content", "")
\* except Exception: ""
ExtractContent(chunk, field) ==
    LET r1 == PyGet(chunk, "choices", JArr(<<EmptyObj>>))
        r2 == IF r1.ok THEN PyIndex0(r1.v) ELSE Raised
        r3 == IF r2.ok THEN PyGet(r2.v, field, EmptyObj) ELSE Raised
        r4 == IF r3.ok THEN PyGet(r3.v, "content", JStr(<<>>)) ELSE Raised
    IN IF r4.ok THEN r4.v ELSE JStr(<<>>)

\* Mutant of TextPiece: the message content is never looked at.
TextPiece_delta_only(chunk) == ExtractContent(chunk, "delta")

\* text_piece after both attempts (delta first, message when that is falsy)
TextPiece(chunk) ==
    LET d == ExtractContent(chunk, "delta")
    IN IF Truthy(d) THEN d ELSE ExtractContent(chunk, "message")

\* ------------------------------------------------------- response payloads
Choice(field, content) == JObj([choices |-> JArr(<<JObj(field :> JObj([content |-> content]))>>)])

P_DeltaA == <<"{\"choices\":[{\"delta\":{\"content\":\"a\"}}]}">>
P_DeltaLabel == <<"{\"choices\":[{\"delta\":{\"content\":\"AI:\"}}]}">>
P_MessageB == <<"{\"choices\":[{\"message\":{\"content\":\"b<U+3002>\"}}]}">>
P_DeltaSpaceC == <<"{\"choices\":[{\"delta\":{\"content\":\" c\"}}]}">>
P_DeltaEmpty == <<"{\"choices\":[{\"delta\":{\"content\":\"\"}}]}">>
P_Number == <<"5">>
P_String == <<"\"s\"">>
P_Array == <<"[1]">>
P_NoChoices == <<"{}">>
P_EmptyChoices == <<"{\"choices\":[]}">>
P_NullDelta == <<"{\"choices\":[{\"delta\":null}]}">>
P_NullContent == <<"{\"choices\":[{\"delta\":{\"content\":null}}]}">>
P_NumContent == <<"{\"choices\":[{\"delta\":{\"content\":7}}]}">>
P_EmptyDeltaMessage ==
    <<"{\"choices\":[{\"delta\":{\"content\":\"\"},\"message\":{\"content\":\"m\"}}]}">>
P_DeltaLong == <<"{\"choices\":[{\"delta\":{\"content\":\"xxx...x\"}}]}">>
\* A delta frame that carries any text: the two runs of JSON around the
\* content, which stands between them as the string it decodes to
FrameOpen == "{\"choices\":[{\"delta\":{\"content\":\""
FrameClose == "\"}}]}"
TextFrame(t) == <<FrameOpen>> \o t \o <<FrameClose>>
IsTextFrame(content) ==
    Len(content) >= 2 /\ content[1] = FrameOpen /\ content[Len(content)] = FrameClose
P_Literal == <<"o", "k">>
DONE == <<"[DONE]">>

\* json.loads(content) on the payloads above; anything else does not parse.
JsonLoads(content) ==
    CASE content = P_DeltaA -> Ok(Choice("delta", JStr(<<"a">>)))
      [] content = P_DeltaLabel -> Ok(Choice("delta", JStr(<<"A", "I", ":">>)))
      [] content = P_MessageB -> Ok(Choice("message", JStr(<<"b", "U+3002">>)))
      [] content = P_DeltaSpaceC -> Ok(Choice("delta", JStr(<<" ", "c">>)))
      [] content = P_DeltaEmpty -> Ok(Choice("delta", JStr(<<>>)))
      [] content = P_Number -> Ok(JNum(5))
      [] content = P_String -> Ok(JStr(<<"s">>))
      [] content = P_Array -> Ok(JArr(<<JNum(1)>>))
      [] content = P_NoChoices -> Ok(EmptyObj)
      [] content = P_EmptyChoices -> Ok(JObj([choices |-> JArr(<<>>)]))
      [] content = P_NullDelta -> Ok(JObj([choices |-> JArr(<<JObj([delta |-> JNull])>>)]))
      [] content = P_NullContent -> Ok(Choice("delta", JNull))
      [] content = P_NumContent -> Ok(Choice("delta", JNum(7)))
      [] content = P_EmptyDeltaMessage ->
            Ok(JObj([choices |-> JArr(<<JObj([delta |-> JObj([content |-> JStr(<<>>)]),
                                              message |-> JObj([content |-> JStr(<<"m">>)])])>>)]))
      [] content = P_DeltaLong -> Ok(Choice("delta", JStr(<<LongRun>>)))
      [] IsTextFrame(content) ->
            Ok(Choice("delta", JStr(SubSeq(content, 2, Len(content) - 1))))
      [] OTHER -> Raised

\* line = raw_line.decode().strip(); the payload is the line without a
\* leading "data:" marker, stripped again
Payload(raw_line) ==
    LET line == Trim(raw_line)
    IN IF StartsWith(line, <<"data:">>) THEN Trim(Tail(line)) ELSE line

\* ------------------------------------------------------------------ state
Sessions == 1..MaxSessions

VARIABLES
    history,             \* self.history: turns [role, content]
    current_ai_buffer,   \* self.current_ai_buffer
    worker,              \* self.worker: a session, or 0 for None
    send_btn,            \* send_btn.isEnabled()
    stop_btn,            \* stop_btn.isEnabled()
    status,              \* the status bar message
    progress_bar,        \* the progress label
    history_label,       \* the count shown by history_label
    display,             \* chat_display: its blocks, in document order
    gui,                 \* "open", "closing" (inside closeEvent's wait), "closed"
    wpc,                 \* per worker: where run() is
    wstop,               \* per worker: self._stop
    token_count,         \* per worker: self.token_count
    messages,            \* per worker: self.messages without the system prompt
    lines,               \* per worker: the raw lines whose processing has begun
    wexit,               \* per worker: the way run() ended, "" while it has not
    queue,               \* signals emitted and not yet delivered to the GUI thread
    emitted,             \* per worker: every signal it has emitted, in order
    sess,                \* per session: what the GUI thread did with it
    startup,             \* what load_saved_models found when the window was built
    models_file,         \* saved_models.json
    model_box            \* the items of model_box

mvars == <<startup, models_file, model_box>>
gvars == <<history, current_ai_buffer, worker, send_btn, stop_btn, status,
           progress_bar, history_label, display, gui, mvars>>
wvars == <<wpc, wstop, token_count, messages, lines, wexit, emitted>>
vars == <<gvars, wvars, queue, sess>>

\* -------------------------------------------------------- labels and texts
Turn(role, content) == [role |-> role, content |-> content]
Label(l) == [label |-> l, value |-> 0]
Percent(v) == [label |-> "pct", value |-> v]

MsgRequestFailed == <<"request failed: e">>
MsgHttp == <<"HTTP 500: body">>
MsgStream == <<"stream error: e">>
ErrorMessages == {MsgRequestFailed, MsgHttp, MsgStream}

\* A signal in flight: the worker, the signal, its str or int argument, and
\* the line (0: none) the worker was processing when it emitted it.
Event(w, type, text, value, ln) ==
    [s |-> w, type |-> type, text |-> text, value |-> value, ln |-> ln]

\* ----------------------------------------------------------- StreamWorker
\* Mutant of OnParseFailure: the parse error is left to the outer handler.
OnParseFailure_raise(content, tc) == [sig |-> <<>>, tc |-> tc, end |-> "raise"]

\* except Exception: self.update_signal.emit(content); continue
OnParseFailure(content, tc) ==
    [sig |-> <<[type |-> "update", text |-> content, value |-> 0]>>,
     tc |-> tc, end |-> "continue"]

\* Mutant of OnNoText: the payload is emitted as literal text.
OnNoText_literal(content, tc) ==
    [sig |-> <<[type |-> "update", text |-> content, value |-> 0]>>,
     tc |-> tc, end |-> "continue"]

\* text_piece is falsy after both attempts: "if text_piece:" is skipped
OnNoText(content, tc) == [sig |-> <<>>, tc |-> tc, end |-> "continue"]

\* Mutant of Progress: the estimate is not capped.
Progress_uncapped(tc) == (tc * 100) \div 1024

\* progress = min(100, int(self.token_count / 1024 * 100))
Progress(tc) ==
    IF (tc * 100) \div 1024 < 100 THEN (tc * 100) \div 1024 ELSE 100

\* What one pass of the loop body does with raw_line, after the stop check:
\* the signals it emits, the new token_count and how the pass ends.
ProcessLine(raw_line, tc) ==
    LET content == Payload(raw_line)
        chunk == JsonLoads(content)
        text_piece == TextPiece(chunk.v)
        tc2 == tc + PyLen(text_piece.s)
    IN IF raw_line = <<>> THEN [sig |-> <<>>, tc |-> tc, end |-> "continue"]
       ELSE IF content = DONE THEN [sig |-> <<>>, tc |-> tc, end |-> "break"]
       ELSE IF ~chunk.ok THEN OnParseFailure(content, tc)
       ELSE IF ~Truthy(text_piece) THEN OnNoText(content, tc)
       ELSE IF text_piece.t # "str"
            \* update_signal is pyqtSignal(str): emit() raises TypeError
            THEN [sig |-> <<>>, tc |-> tc, end |-> "raise"]
       ELSE [sig |-> << [type |-> "update", text |-> text_piece.s, value |-> 0],
                        [type |-> "progress", text |-> <<>>, value |-> Progress(tc2)] >>,
             tc |-> tc2, end |-> "continue"]

\* Mutant of ExitSignals: the finish is emitted at the end of the try block
\* instead of in a finally clause.
ExitSignals_NoFinally(raised) ==
    IF raised
    THEN << [type |-> "error", text |-> MsgStream, value |-> 0] >>
    ELSE << [type |-> "finish", text |-> <<>>, value |-> 0] >>

\* Mutant of ExitSignals: the finish is emitted before the except clause's
\* error.
ExitSignals_finish_first(raised) ==
    IF raised
    THEN << [type |-> "finish", text |-> <<>>, value |-> 0],
            [type |-> "error", text |-> MsgStream, value |-> 0] >>
    ELSE << [type |-> "finish", text |-> <<>>, value |-> 0] >>

\* The signals run() emits on its way out of the try block: the except
\* clause's error when an exception got there, then the finally clause.
ExitSignals(raised) ==
    IF raised
    THEN << [type |-> "error", text |-> MsgStream, value |-> 0],
            [type |-> "finish", text |-> <<>>, value |-> 0] >>
    ELSE << [type |-> "finish", text |-> <<>>, value |-> 0] >>

\* Mutant of EarlySignals: the early return forgets its finish_signal.
EarlySignals_error_only(msg) ==
    << [type |-> "error", text |-> msg, value |-> 0] >>

\* The signals of the two early returns (request failed, status # 200)
EarlySignals(msg) ==
    << [type |-> "error", text |-> msg, value |-> 0],
       [type |-> "finish", text |-> <<>>, value |-> 0] >>

Stamp(w, sig, ln) ==
    [i \in 1..Len(sig) |-> Event(w, sig[i].type, sig[i].text, sig[i].value, ln)]

\* emit(): queued to the GUI thread, and logged
Emit(w, sig, ln) ==
    /\ queue' = queue \o Stamp(w, sig, ln)
    /\ emitted' = [emitted EXCEPT ![w] = @ \o Stamp(w, sig, ln)]

IsRunning(w) == wpc[w] \in {"post", "loop"}

\* requests.post raises
WRequestFails(w) ==
    /\ gui # "closed" /\ wpc[w] = "post"
    /\ Emit(w, EarlySignals(MsgRequestFailed), 0)
    /\ wpc' = [wpc EXCEPT ![w] = "done"]
    /\ wexit' = [wexit EXCEPT ![w] = "request"]
    /\ UNCHANGED <<gvars, wstop, token_count, messages, lines, sess>>

\* resp.status_code != 200
WHttpError(w) ==
    /\ gui # "closed" /\ wpc[w] = "post"
    /\ Emit(w, EarlySignals(MsgHttp), 0)
    /\ wpc' = [wpc EXCEPT ![w] = "done"]
    /\ wexit' = [wexit EXCEPT ![w] = "http"]
    /\ UNCHANGED <<gvars, wstop, token_count, messages, lines, sess>>

\* status 200: the loop over resp.iter_lines() starts
WConnected(w) ==
    /\ gui # "closed" /\ wpc[w] = "post"
    /\ wpc' = [wpc EXCEPT ![w] = "loop"]
    /\ UNCHANGED <<gvars, wstop, token_count, messages, lines, wexit, queue, emitted, sess>>

\* Mutant of StopRequested: the flag is never looked at.
StopRequested_never(w) == FALSE

\* if self._stop: break
StopRequested(w) == wstop[w]

\* iter_lines yields raw_line: the stop check, then the loop body
WLine(w, raw_line, max) ==
    /\ gui # "closed" /\ wpc[w] = "loop"
    /\ Len(lines[w]) < max
    /\ IF StopRequested(w)
       THEN /\ Emit(w, ExitSignals(FALSE), 0)
            /\ wpc' = [wpc EXCEPT ![w] = "done"]
            /\ wexit' = [wexit EXCEPT ![w] = "stop"]
            /\ UNCHANGED <<token_count, lines>>
       ELSE LET r == ProcessLine(raw_line, token_count[w])
                ln == Len(lines[w]) + 1
            IN /\ lines' = [lines EXCEPT ![w] = Append(@, raw_line)]
               /\ token_count' = [token_count EXCEPT ![w] = r.tc]
               /\ Emit(w, IF r.end = "continue" THEN r.sig
                          ELSE r.sig \o ExitSignals(r.end = "raise"), ln)
               /\ wpc' = [wpc EXCEPT ![w] = IF r.end = "continue" THEN "loop" ELSE "done"]
               /\ wexit' = [wexit EXCEPT ![w] =
                              CASE r.end = "continue" -> ""
                                [] r.end = "break" -> "sentinel"
                                [] OTHER -> "raise"]
    /\ UNCHANGED <<gvars, wstop, messages, sess>>

\* iter_lines is exhausted: the server closed the stream
WEndOfStream(w) ==
    /\ gui # "closed" /\ wpc[w] = "loop"
    /\ Emit(w, ExitSignals(FALSE), 0)
    /\ wpc' = [wpc EXCEPT ![w] = "done"]
    /\ wexit' = [wexit EXCEPT ![w] = "eof"]
    /\ UNCHANGED <<gvars, wstop, token_count, messages, lines, sess>>

\* iter_lines raises (connection reset, read timeout)
WIterRaises(w) ==
    /\ gui # "closed" /\ wpc[w] = "loop"
    /\ Emit(w, ExitSignals(TRUE), 0)
    /\ wpc' = [wpc EXCEPT ![w] = "done"]
    /\ wexit' = [wexit EXCEPT ![w] = "raise"]
    /\ UNCHANGED <<gvars, wstop, token_count, messages, lines, sess>>

\* ------------------------------------------------------ AIAssistantWindow
\* What the user can type into input_box
Inputs == { <<" ">>, <<"h", " ">> }

Started(w) == wpc[w] # "none"
\* A session is active from its submission until its Finished is handled.
Active(w) == Started(w) /\ sess[w].nfin = 0
NoSession ==
    [input |-> <<>>, hist0 |-> <<>>, alone |-> FALSE, stopped |-> "no", nfin |-> 0,
     pre_hist |-> <<>>, pre_buf |-> <<>>, post_hist |-> <<>>,
     post_status |-> "", post_progress |-> Label(""), post_ph |-> 0,
     reset |-> FALSE, stop_at |-> -1]

\* The texts of the update signals in a sequence of signals
RECURSIVE Deltas(_)
Deltas(evs) ==
    IF evs = <<>> THEN <<>>
    ELSE IF Head(evs).type = "update" THEN <<Head(evs).text>> \o Deltas(Tail(evs))
    ELSE Deltas(Tail(evs))

Of(evs, w) == SelectSeq(evs, LAMBDA e : e.s = w)

\* The signals of worker w the GUI thread has handled: every signal is
\* queued when emitted and the queue is first in, first out
Delivered(w) == SubSeq(emitted[w], 1, Len(emitted[w]) - Len(Of(queue, w)))

\* The display is the sequence of the blocks inserted into chat_display, a
\* block being a user or assistant bubble, a placeholder (the block with the
\* empty span that carries placeholder_id) or an error (that span after
\* on_error filled it); toHtml() is taken to return the blocks as inserted.
\* Index of the first block of the display whose kind is in kinds, or 0
FirstBlock(d, kinds) ==
    IF \E i \in 1..Len(d) : d[i].kind \in kinds
    THEN CHOOSE i \in 1..Len(d) :
            d[i].kind \in kinds /\ \A j \in 1..(i - 1) : d[j].kind \notin kinds
    ELSE 0

RemoveAt(d, i) == SubSeq(d, 1, i - 1) \o SubSeq(d, i + 1, Len(d))

Block(kind, text) == [kind |-> kind, text |-> text]

\* append_message: one more bubble at the end of the display
append_message(d, role) == Append(d, Block(role, <<>>))

\* append_ai_placeholder: inserts the block with the empty span, whatever
\* the display already holds
append_ai_placeholder(d) == Append(d, Block("placeholder", <<>>))

\* on_send with input_box holding text
on_send(text) ==
    LET user_text == Trim(text)
        w == Cardinality({v \in Sessions : Started(v)}) + 1
    IN IF user_text = <<>> THEN UNCHANGED vars
       ELSE /\ w \in Sessions
            /\ messages' = [messages EXCEPT ![w] = Append(history, Turn("user", user_text))]
            /\ history' = Append(history, Turn("user", user_text))
            /\ display' = append_ai_placeholder(append_message(display, "user"))
            /\ current_ai_buffer' = <<>>
            /\ send_btn' = FALSE
            /\ stop_btn' = TRUE
            /\ status' = "generating"
            /\ progress_bar' = Percent(0)
            /\ worker' = w
            /\ wpc' = [wpc EXCEPT ![w] = "post"]
            /\ history_label' = Len(history')
            /\ sess' = [v \in Sessions |->
                          IF v = w
                          THEN [NoSession EXCEPT !.input = text, !.hist0 = history,
                                   !.alone = \A u \in Sessions : ~Active(u)]
                          ELSE IF Active(v) THEN [sess[v] EXCEPT !.alone = FALSE]
                          ELSE sess[v]]
            /\ UNCHANGED <<mvars, gui, wstop, token_count, lines, wexit, queue, emitted>>

\* send_btn.clicked: only an enabled button can be clicked
OnSendButton == gui = "open" /\ send_btn /\ \E text \in Inputs : on_send(text)

\* input_box.returnPressed: the input box is never disabled
OnSendReturn == gui = "open" /\ \E text \in Inputs : on_send(text)

\* stop_btn.clicked -> on_stop
on_stop ==
    /\ gui = "open" /\ stop_btn
    /\ IF worker # 0
       THEN /\ wstop' = [wstop EXCEPT ![worker] = TRUE]
            /\ stop_btn' = FALSE
            /\ status' = "stopped"
            /\ progress_bar' = Label("stopped")
            /\ sess' = [sess EXCEPT ![worker].stopped =
                          IF @ # "no" THEN @
                          ELSE IF Deltas(Delivered(worker)) = <<>> THEN "before_delta"
                          ELSE "after_delta",
                                    ![worker].stop_at =
                          IF wstop[worker] THEN @ ELSE Len(emitted[worker])]
       ELSE UNCHANGED <<wstop, stop_btn, status, progress_bar, sess>>
    /\ UNCHANGED <<mvars, history, current_ai_buffer, worker, send_btn, history_label,
                   display, gui, wpc, token_count, messages, lines, wexit,
                   queue, emitted>>

\* update_progress(value)
update_progress(value) ==
    /\ progress_bar' = Percent(value)
    /\ UNCHANGED <<mvars, history, current_ai_buffer, worker, send_btn, stop_btn, status,
                   history_label, display, gui, wvars, sess>>

\* Mutant of on_stream_update: the buffer is replaced, not extended.
on_stream_update_overwrite(chunk) ==
    /\ current_ai_buffer' = _strip_role_prefixes(chunk)
    /\ UNCHANGED <<mvars, history, worker, send_btn, stop_btn, status, progress_bar,
                   history_label, display, gui, wvars, sess>>

\* on_stream_update(chunk)
on_stream_update(chunk) ==
    /\ current_ai_buffer' = _strip_role_prefixes(current_ai_buffer \o chunk)
    /\ UNCHANGED <<mvars, history, worker, send_btn, stop_btn, status, progress_bar,
                   history_label, display, gui, wvars, sess>>

\* on_error(msg): the first span carrying the placeholder id gets the
\* message as its content, whether it was empty or not
on_error(msg) ==
    LET i == FirstBlock(display, {"placeholder", "error"})
    IN /\ display' = IF i = 0 THEN display
                     ELSE [display EXCEPT ![i] = Block("error", msg)]
       /\ send_btn' = TRUE
       /\ stop_btn' = FALSE
       /\ status' = "error"
       /\ progress_bar' = Label("error")
       /\ UNCHANGED <<mvars, history, current_ai_buffer, worker, history_label, gui,
                      wvars, sess>>

\* final, as on_stream_finish computes it from the buffer
FinalText(buffer) ==
    _collapse_consecutive_sentences(_strip_role_prefixes(Trim(buffer)))

\* last_assistant: the stripped content of the latest assistant turn, or
\* None (here a value no text equals)
LastAssistant(h) ==
    LET idx == {i \in 1..Len(h) : h[i].role = "assistant"}
    IN IF idx = {} THEN <<"None">>
       ELSE Trim(h[CHOOSE i \in idx : \A j \in idx : j <= i].content)

\* Mutant of FinishHistory: the latest assistant turn is compared with the
\* buffer as it is, not with the cleaned text.
FinishHistory_raw_compare(h, buffer) ==
    IF FinalText(buffer) # <<>> /\ LastAssistant(h) # buffer
    THEN Append(h, Turn("assistant", FinalText(buffer)))
    ELSE h

\* Mutant of FinishHistory: no comparison with the latest assistant turn.
FinishHistory_unguarded(h, buffer) ==
    IF FinalText(buffer) # <<>>
    THEN Append(h, Turn("assistant", FinalText(buffer)))
    ELSE h

\* The history after on_stream_finish
FinishHistory(h, buffer) ==
    LET final == FinalText(buffer)
    IN IF final # <<>> /\ LastAssistant(h) # final
       THEN Append(h, Turn("assistant", final))
       ELSE h

\* on_stream_finish, entered for a Finished of session s.  The handler does
\* not know s: it only feeds the record kept of the session.
on_stream_finish(s) ==
    LET final == FinalText(current_ai_buffer)
        i == FirstBlock(display, {"placeholder"})
    IN /\ history' = FinishHistory(history, current_ai_buffer)
       /\ IF i # 0
          THEN display' = IF final # <<>>
                          THEN append_message(RemoveAt(display, i), "assistant")
                          ELSE RemoveAt(display, i)
          \* no empty placeholder block: the bubble is appended unless the
          \* rendered plain text already ends with final
          ELSE \E ends \in BOOLEAN :
                  display' = IF final # <<>> /\ ~ends
                             THEN append_message(display, "assistant")
                             ELSE display
       /\ send_btn' = TRUE
       /\ stop_btn' = FALSE
       /\ worker' = 0
       /\ status' = "ready"
       /\ history_label' = Len(history')
       /\ progress_bar' = Label("done")
       /\ sess' = [sess EXCEPT ![s] =
                     [@ EXCEPT !.nfin = @ + 1, !.pre_hist = history,
                               !.pre_buf = current_ai_buffer, !.post_hist = history',
                               !.post_status = status', !.post_progress = progress_bar',
                               !.post_ph = Len(SelectSeq(display', LAMBDA b : b.kind = "placeholder"))]]
       /\ UNCHANGED <<mvars, current_ai_buffer, gui, wvars>>

\* clear_history, with the answer given to the confirmation dialog
clear_history ==
    /\ gui = "open"
    /\ \E confirm \in BOOLEAN :
         IF ~confirm THEN UNCHANGED vars
         ELSE /\ history' = <<>>
              /\ display' = <<>>
              /\ history_label' = 0
              /\ status' = "cleared"
              /\ sess' = [v \in Sessions |->
                            IF Active(v) THEN [sess[v] EXCEPT !.alone = FALSE, !.reset = TRUE]
                            ELSE sess[v]]
              /\ UNCHANGED <<mvars, current_ai_buffer, worker, send_btn, stop_btn,
                             progress_bar, gui, wvars, queue>>

\* closeEvent up to w.wait(2000)
CloseBegin ==
    /\ gui = "open"
    /\ IF worker # 0 /\ IsRunning(worker)
       THEN /\ status' = "stopping"
            /\ wstop' = [wstop EXCEPT ![worker] = TRUE]
            /\ gui' = "closing"
            /\ sess' = [sess EXCEPT ![worker].stop_at =
                          IF wstop[worker] THEN @ ELSE Len(emitted[worker])]
       ELSE /\ gui' = "closed"
            /\ UNCHANGED <<status, wstop, sess>>
    /\ UNCHANGED <<mvars, history, current_ai_buffer, worker, send_btn, stop_btn,
                   progress_bar, history_label, display, wpc, token_count,
                   messages, lines, wexit, queue, emitted>>

\* closeEvent from the return of w.wait(2000): the thread has ended or the
\* two seconds are over
CloseEnd ==
    /\ gui = "closing"
    /\ wpc' = IF IsRunning(worker) THEN [wpc EXCEPT ![worker] = "terminated"] ELSE wpc
    /\ gui' = "closed"
    /\ UNCHANGED <<mvars, history, current_ai_buffer, worker, send_btn, stop_btn, status,
                   progress_bar, history_label, display, wstop, token_count,
                   messages, lines, wexit, queue, emitted, sess>>

\* ---------------------------------------------------------- the model list
\* A JSON object with its keys in the order of the text
JObjOrdered(keys, f) == [t |-> "obj", f |-> f, keys |-> keys]
Name(n) == JStr(<<n>>)

\* What GET /v1/models gave: requests.get raised, a status other than 200,
\* a body that is not JSON, or status 200 and the JSON value body
Response(outcome, body) == [outcome |-> outcome, body |-> body]
NoServer == Response("connect_failed", JNull)

\* name = item.get("id") or item.get("name")
ItemName(item) ==
    IF Truthy(PyGet(item, "id", JNull).v) THEN PyGet(item, "id", JNull).v
    ELSE PyGet(item, "name", JNull).v

\* for item in ...: if isinstance(item, dict): ...; if name: models.append(name)
RECURSIVE NamesOf(_)
NamesOf(items) ==
    IF items = <<>> THEN <<>>
    ELSE (IF Head(items).t = "obj" /\ Truthy(ItemName(Head(items)))
          THEN <<ItemName(Head(items))>> ELSE <<>>) \o NamesOf(Tail(items))

\* Mutant of Degraded: no second attempt when no name was read.
Degraded_none(data, models) == models

\* if not models: if isinstance(data, dict): for k in data.keys(): models.append(str(k))
Degraded(data, models) ==
    IF models = <<>> /\ data.t = "obj"
    THEN [i \in 1..Len(data.keys) |-> Name(data.keys[i])]
    ELSE models

\* seen = []; for m in models: if m not in seen: seen.append(m)
RECURSIVE Dedupe(_, _)
Dedupe(models, seen) ==
    IF models = <<>> THEN seen
    ELSE Dedupe(Tail(models),
                IF \E i \in 1..Len(seen) : seen[i] = Head(models)
                THEN seen ELSE Append(seen, Head(models)))

fetch_models_from_api(resp) ==
    IF resp.outcome # "ok" THEN <<>>
    ELSE LET data == resp.body
             models ==
                 IF data.t = "obj" /\ "data" \in DOMAIN data.f /\ data.f.data.t = "arr"
                 THEN NamesOf(data.f.data.items)
                 ELSE IF data.t = "arr" THEN NamesOf(data.items)
                 ELSE <<>>
         IN Dedupe(Degraded(data, models), <<>>)

\* saved_models.json: missing, not JSON, or a list of names
NoFile == [state |-> "missing", models |-> <<>>]
BadFile == [state |-> "invalid", models |-> <<>>]
SavedFile(models) == [state |-> "list", models |-> models]

DefaultModels == << <<"qwen/qwen3-30b-a3b-2507">>, <<"gpt-4o">>, <<"gpt-4o-mini">> >>

\* The list load_saved_models takes: the API's when it is not empty and
\* addItems accepts it (every name a str), else the file's, else the default
SourceOf(resp, file) ==
    LET api_models == fetch_models_from_api(resp)
    IN IF api_models # <<>> /\ \A i \in 1..Len(api_models) : api_models[i].t = "str"
       THEN "api"
       ELSE IF file.state = "list" THEN "file" ELSE "default"

\* The items of model_box after load_saved_models
load_saved_models(resp, file) ==
    LET api_models == fetch_models_from_api(resp)
    IN CASE SourceOf(resp, file) = "api" -> [i \in 1..Len(api_models) |-> api_models[i].s]
         [] SourceOf(resp, file) = "file" -> file.models
         [] OTHER -> DefaultModels

Startup(resp, file) == [response |-> resp, source |-> SourceOf(resp, file)]

\* save_current_model, text being model_box.currentText(); the write of
\* the file succeeds or raises
save_current_model(text) ==
    LET current_model == Trim(text)
    IN /\ gui = "open"
       /\ IF current_model = <<>> \/ (\E i \in 1..Len(model_box) : model_box[i] = current_model)
          THEN UNCHANGED vars
          ELSE /\ model_box' = Append(model_box, current_model)
               /\ \E written \in BOOLEAN :
                     models_file' = IF written THEN SavedFile(Append(model_box, current_model))
                                    ELSE models_file
               /\ UNCHANGED <<history, current_ai_buffer, worker, send_btn, stop_btn,
                              status, progress_bar, history_label, display, gui,
                              startup, wvars, queue, sess>>

\* ------------------------------------------- delivery of queued signals
Pending(type) == gui = "open" /\ queue # <<>> /\ Head(queue).type = type

DeliverUpdate ==
    Pending("update") /\ queue' = Tail(queue) /\ on_stream_update(Head(queue).text)

DeliverProgress ==
    Pending("progress") /\ queue' = Tail(queue) /\ update_progress(Head(queue).value)

DeliverError ==
    Pending("error") /\ queue' = Tail(queue) /\ on_error(Head(queue).text)

DeliverFinish ==
    Pending("finish") /\ queue' = Tail(queue) /\ on_stream_finish(Head(queue).s)

\* --------------------------------------------------------- specifications
InitWindow ==
    /\ history = <<>>
    /\ current_ai_buffer = <<>>
    /\ worker = 0
    /\ send_btn = TRUE
    /\ stop_btn = FALSE
    /\ status = "ready"
    /\ progress_bar = Label("ready")
    /\ history_label = 0
    /\ display = <<>>
    /\ gui = "open"
    /\ wpc = [w \in Sessions |-> "none"]
    /\ wstop = [w \in Sessions |-> FALSE]
    /\ token_count = [w \in Sessions |-> 0]
    /\ messages = [w \in Sessions |-> <<>>]
    /\ lines = [w \in Sessions |-> <<>>]
    /\ wexit = [w \in Sessions |-> ""]
    /\ queue = <<>>
    /\ emitted = [w \in Sessions |-> <<>>]
    /\ sess = [w \in Sessions |-> NoSession]

\* The window as built when the server was not reachable and no list saved
Init ==
    /\ InitWindow
    /\ startup = Startup(NoServer, NoFile)
    /\ models_file = NoFile
    /\ model_box = load_saved_models(NoServer, NoFile)

Mark == <<"data:", " ">>

\* The lines a server sends in the model of the whole program
SysLines == { Mark \o P_DeltaA, Mark \o DONE }

\* Every shape of line, for the model of one worker
AllLines ==
    { <<>>, <<" ">>, Mark \o DONE, DONE, P_Literal, <<"data:">> \o P_Literal }
    \cup { Mark \o p : p \in { P_DeltaA, P_DeltaLabel, P_DeltaSpaceC, P_MessageB, P_DeltaEmpty,
                               P_Number, P_String, P_Array, P_NoChoices,
                               P_EmptyChoices, P_NullDelta, P_NullContent,
                               P_NumContent, P_EmptyDeltaMessage, P_DeltaLong } }

Next ==
    \/ OnSendButton
    \/ OnSendReturn
    \/ on_stop
    \/ clear_history
    \/ CloseBegin
    \/ CloseEnd
    \/ DeliverUpdate
    \/ DeliverProgress
    \/ DeliverError
    \/ DeliverFinish
    \/ \E w \in Sessions : WRequestFails(w)
    \/ \E w \in Sessions : WHttpError(w)
    \/ \E w \in Sessions : WConnected(w)
    \/ \E w \in Sessions : \E raw_line \in SysLines : WLine(w, raw_line, MaxLines)
    \/ \E w \in Sessions : WEndOfStream(w)
    \/ \E w \in Sessions : WIterRaises(w)

Spec == Init /\ [][Next]_vars

\* One submission at a time, no cancellation and no failure: the user
\* submits only when no session is active and nothing is left in the queue;
\* the replies carry role labels, sentence delimiters and leading whitespace.
SeqLines ==
    { Mark \o p : p \in {P_DeltaA, P_DeltaLabel, P_DeltaSpaceC, P_MessageB, DONE} }

OnSendIdle ==
    /\ gui = "open" /\ queue = <<>> /\ \A w \in Sessions : ~Active(w)
    /\ \E text \in Inputs : on_send(text)

NextSeq ==
    \/ OnSendIdle
    \/ DeliverUpdate
    \/ DeliverProgress
    \/ DeliverFinish
    \/ \E w \in Sessions : WConnected(w)
    \/ \E w \in Sessions : \E raw_line \in SeqLines : WLine(w, raw_line, MaxSeqLines)
    \/ \E w \in Sessions : WEndOfStream(w)

SpecSeq == Init /\ [][NextSeq]_vars

\* One worker and every shape of line: the first submission only, its
\* cancellation and the shutdown of the window.
OnSendFirst ==
    /\ gui = "open" /\ \A w \in Sessions : ~Started(w)
    /\ \E text \in Inputs : on_send(text)

NextWorker ==
    \/ OnSendFirst
    \/ on_stop
    \/ CloseBegin
    \/ CloseEnd
    \/ DeliverUpdate
    \/ DeliverProgress
    \/ DeliverError
    \/ DeliverFinish
    \/ \E w \in Sessions : WRequestFails(w)
    \/ \E w \in Sessions : WHttpError(w)
    \/ \E w \in Sessions : WConnected(w)
    \/ \E w \in Sessions : \E raw_line \in AllLines : WLine(w, raw_line, MaxLines)
    \/ \E w \in Sessions : WEndOfStream(w)
    \/ \E w \in Sessions : WIterRaises(w)

SpecWorker == Init /\ [][NextWorker]_vars

\* One worker, one reply: a delta whose text is any text up to MaxTextLen
\* characters over the characters the role labels, or the sentences, are
\* made of.
TextsOver(alphabet) == UNION { [1..k -> alphabet] : k \in 0..MaxTextLen }
LabelTexts == TextsOver({"A", "I", ":", " "})
SentenceTexts == TextsOver({"A", "B", "U+3002", "\n", " "})
\* Texts with markup: every text of up to MaxMarkupLen of these characters
\* and fences (FENCE: three backticks), and texts for the other stages
RECURSIVE Chars(_)
Chars(ts) ==
    IF ts = <<>> THEN <<>>
    ELSE (IF Head(ts) = "FENCE" THEN <<"U+0060", "U+0060", "U+0060">> ELSE <<Head(ts)>>)
         \o Chars(Tail(ts))
ScriptText == <<"<", "script", ">", "x", "<", "/script", ">">>
FencedText == <<"FENCE", "x", "<", "y", "FENCE">>
MarkupExamples ==
    { ScriptText, FencedText,
      <<"#", " ", "<", "x", ">">>, <<"*", "*", "<", "*", "*">>, <<"-", " ", "<">>,
      <<"|", "<", "|">>, <<"-", "-", "-">>, <<"*", "<", "*">>, <<"x", "\r", "\n", "<">>,
      <<"|", "-", "|", "\n", "x", "|", ">">>,
      <<"\n", "\n", "#", "#", "x", "\n", ">", " ", "&", "\"", "'">>,
      <<"x", "\n", " ", "\n", "\n", "\n", "x">>,
      <<"FENCE", "<", "FENCE", "FENCE", ">", "FENCE", "U+0060", "x", "U+0060">> }
MarkupTexts ==
    { Chars(ts) : ts \in (UNION { [1..k -> {"<", ">", "FENCE", "U+0060", "x", "\n", "#", "*"}]
                                   : k \in 0..MaxMarkupLen }) \cup MarkupExamples }
TextLines == { Mark \o TextFrame(t) : t \in LabelTexts \cup SentenceTexts \cup MarkupTexts }

NextText ==
    \/ OnSendFirst
    \/ DeliverUpdate
    \/ DeliverProgress
    \/ DeliverFinish
    \/ \E w \in Sessions : WConnected(w)
    \/ \E w \in {v \in Sessions : wpc[v] = "loop" /\ Len(lines[v]) < MaxTextLines} :
          \E raw_line \in TextLines : WLine(w, raw_line, MaxTextLines)
    \/ \E w \in Sessions : WEndOfStream(w)

SpecText == Init /\ [][NextText]_vars

\* The model list: the window as built for each answer of the models
\* endpoint and each state of the saved file, and names saved afterwards.
DataObj(items) ==
    JObjOrdered(<<"data", "object">>, [data |-> JArr(items), object |-> Name("list")])
Item(field, name) == JObj(field :> name)

Responses ==
    << NoServer,
       Response("http_500", JNull),
       Response("not_json", JNull),
       Response("ok", DataObj(<<Item("id", Name("m1")), Item("id", Name("m2"))>>)),
       Response("ok", DataObj(<<Item("name", Name("m1"))>>)),
       Response("ok", DataObj(<<JObj([id |-> JStr(<<>>), name |-> Name("m2")])>>)),
       Response("ok", DataObj(<<Item("id", Name("m1")), Item("id", Name("m1"))>>)),
       Response("ok", DataObj(<<JNum(5), Item("id", Name("m1"))>>)),
       Response("ok", JArr(<<Item("id", Name("m1"))>>)),
       Response("ok", DataObj(<<>>)),
       Response("ok", DataObj(<<Item("object", Name("model"))>>)),
       Response("ok", DataObj(<<Item("id", JNum(7))>>)),
       Response("ok", JObjOrdered(<<"error">>, [error |-> Name("no models")])),
       Response("ok", JObjOrdered(<<"data">>, [data |-> Name("m1")])),
       Response("ok", JObjOrdered(<<>>, <<>>)),
       Response("ok", JArr(<<>>)),
       Response("ok", JArr(<<JNum(1), Item("object", Name("model"))>>)),
       Response("ok", JNum(5)),
       Response("ok", Name("m1")),
       Response("ok", JNull) >>

Files == {NoFile, BadFile, SavedFile(<< <<"m3">> >>)}
TypedNames == { <<" ">>, <<"m1">>, <<" ", "m4">>, <<"m5">> }

InitModels ==
    /\ InitWindow
    /\ \E i \in 1..Len(Responses) : \E file \in Files :
          /\ startup = Startup(Responses[i], file)
          /\ models_file = file
          /\ model_box = load_saved_models(Responses[i], file)

NextModels == \E text \in TypedNames : save_current_model(text)

SpecModels == InitModels /\ [][NextModels]_vars

\* ================================================================ claims
TypesOf(evs) == {evs[i].type : i \in 1..Len(evs)}
FinishCount(w) == Len(SelectSeq(emitted[w], LAMBDA e : e.type = "finish"))
\* The signals worker w emitted while it processed its i-th line
EventsOfLine(w, i) == SelectSeq(emitted[w], LAMBDA e : e.ln = i)
Placeholders(d) == Len(SelectSeq(d, LAMBDA b : b.kind = "placeholder"))
UserTurn(w) == Turn("user", Trim(sess[w].input))

\* C1: every run() that reaches its end has emitted Finished exactly once,
\* whichever way it ended (sentinel, end of stream, status # 200, failed
\* request, stop(), exception), and no run() ever emits it twice.
C1_FinishedExactlyOnce ==
    \A w \in Sessions :
        /\ FinishCount(w) <= 1
        /\ wpc[w] = "done" => FinishCount(w) = 1

\* C1 witness: a run that emitted a Delta for its first line and ended by
\* an exception raised while it processed the second has emitted its Error
\* and one Finished.
C1_Witness ==
    \E w \in Sessions :
        /\ wpc[w] = "done" /\ wexit[w] = "raise"
        /\ "update" \in TypesOf(EventsOfLine(w, 1))
        /\ "error" \in TypesOf(EventsOfLine(w, 2))
        /\ FinishCount(w) = 1

\* C2: at most one session is active (submitted, Finished not yet handled)
\* at any time.
C2_AtMostOneActiveSession ==
    Cardinality({w \in Sessions : Active(w)}) <= 1

\* C3: the display never holds two unresolved placeholders.
C3_AtMostOnePlaceholder == Placeholders(display) <= 1

\* The state a normal completion leaves from history h and buffer buf
CompletedOutcome(h, buf) == <<FinishHistory(h, buf), "ready", Label("done")>>

\* C4: a run ended by stop() emits no Error, and handling its Finished
\* leaves history, status and progress label different from what a normal
\* completion with the same buffer leaves.
C4_CancelledIsItsOwnOutcome ==
    \A w \in Sessions :
        wexit[w] = "stop" =>
            /\ "error" \notin TypesOf(emitted[w])
            /\ sess[w].nfin >= 1 =>
                 <<sess[w].post_hist, sess[w].post_status, sess[w].post_progress>>
                    # CompletedOutcome(sess[w].pre_hist, sess[w].pre_buf)

\* The buffer after the deltas ds, accumulated as on_stream_update does
RECURSIVE Accumulate(_, _)
Accumulate(buf, ds) ==
    IF ds = <<>> THEN buf
    ELSE Accumulate(_strip_role_prefixes(buf \o Head(ds)), Tail(ds))

\* T: the cleaned text of the deltas worker w emitted
SessionText(w) == FinalText(Accumulate(<<>>, Deltas(emitted[w])))

\* A session of its own that ended with the sentinel, was not cancelled,
\* whose Finished has been handled and whose cleaned text is not empty
CompletedAlone(w) ==
    /\ sess[w].nfin >= 1 /\ sess[w].alone /\ sess[w].stopped = "no"
    /\ wexit[w] = "sentinel" /\ ~wstop[w]
    /\ SessionText(w) # <<>>

\* C5 as stated: after such a session the history is H, the User turn U and
\* an Assistant turn T, for every H.
C5_Original ==
    \A w \in Sessions :
        CompletedAlone(w) =>
            sess[w].post_hist =
                sess[w].hist0 \o <<UserTurn(w), Turn("assistant", SessionText(w))>>

\* C5 amended: the Assistant turn T follows H and U unless T equals the
\* content of the latest Assistant turn of H; then only U is appended.
C5_HistoryAfterCompletion ==
    \A w \in Sessions :
        CompletedAlone(w) =>
            sess[w].post_hist =
                IF LastAssistant(sess[w].hist0) # SessionText(w)
                THEN sess[w].hist0 \o <<UserTurn(w), Turn("assistant", SessionText(w))>>
                ELSE sess[w].hist0 \o <<UserTurn(w)>>

\* C5 witness: a second session with two deltas and the sentinel has added
\* its User and Assistant turns to a history that was not empty.
C5_Witness ==
    \E w \in Sessions :
        /\ CompletedAlone(w)
        /\ Len(Deltas(emitted[w])) = 2
        /\ sess[w].hist0 # <<>>
        /\ sess[w].post_hist =
              sess[w].hist0 \o <<UserTurn(w), Turn("assistant", SessionText(w))>>

\* C6: when on_stop came before any Delta of the session was handled, the
\* handling of its Finished appends no Assistant turn; and in a session of
\* its own the last turn is the submitted User turn and no placeholder is
\* left.
C6_CancelBeforeDeltaAppendsNothing ==
    \A w \in Sessions :
        (sess[w].stopped = "before_delta" /\ sess[w].nfin >= 1) =>
            /\ sess[w].post_hist = sess[w].pre_hist
            /\ sess[w].alone =>
                 /\ sess[w].post_hist = sess[w].hist0 \o <<UserTurn(w)>>
                 /\ sess[w].post_ph = 0

\* C7: the handling of the Finished of a session that emitted an Error
\* appends no Assistant turn, and no turn's content is an error message.
C7_ErrorAppendsNoAssistantTurn ==
    /\ \A w \in Sessions :
         ("error" \in TypesOf(emitted[w]) /\ sess[w].nfin >= 1) =>
             sess[w].post_hist = sess[w].pre_hist
    /\ \A i \in 1..Len(history) : history[i].content \notin ErrorMessages

\* choices[0][field] is an object
HasPath(v, field) ==
    /\ v.t = "obj" /\ "choices" \in DOMAIN v.f
    /\ v.f.choices.t = "arr" /\ v.f.choices.items # <<>>
    /\ v.f.choices.items[1].t = "obj"
    /\ field \in DOMAIN v.f.choices.items[1].f
    /\ v.f.choices.items[1].f[field].t = "obj"

\* ... and its content, when it has one, is of one of the types
ContentIs(v, field, types) ==
    /\ HasPath(v, field)
    /\ "content" \in DOMAIN v.f.choices.items[1].f[field].f
          => v.f.choices.items[1].f[field].f.content.t \in types

\* {choices: [{delta: {content?}} | {message: {content?}}]}, content a string
ExpectedShape(v) ==
    ContentIs(v, "delta", {"str"}) \/ ContentIs(v, "message", {"str"})

\* A content that is there and is neither a string nor null
OddContent(v) ==
    \E field \in {"delta", "message"} :
        HasPath(v, field) /\ ~ContentIs(v, field, {"str", "null"})

Processed(w, i) == i \in 1..Len(lines[w]) /\ lines[w][i] # <<>>
                   /\ Payload(lines[w][i]) # DONE
Parsed(w, i) == JsonLoads(Payload(lines[w][i]))
IsLiteralDelta(w, i) ==
    /\ Len(EventsOfLine(w, i)) = 1
    /\ EventsOfLine(w, i)[1].type = "update"
    /\ EventsOfLine(w, i)[1].text = Payload(lines[w][i])

\* C8: no line that is neither the sentinel nor JSON of the expected shape
\* makes the worker emit an Error or leave the loop.
C8_MalformedFrameNeverAborts ==
    \A w \in Sessions : \A i \in 1..MaxLines :
        (Processed(w, i) /\ (~Parsed(w, i).ok \/ ~ExpectedShape(Parsed(w, i).v))) =>
            TypesOf(EventsOfLine(w, i)) \cap {"error", "finish"} = {}

\* C9: a non-empty line whose payload is not the sentinel and does not
\* parse as JSON yields exactly one Delta, the payload itself, no Error, and
\* the loop goes on.
C9_UnparsableLineIsLiteralDelta ==
    \A w \in Sessions : \A i \in 1..MaxLines :
        (Processed(w, i) /\ ~Parsed(w, i).ok) => IsLiteralDelta(w, i)

\* C9 witness: an unparsable first line became one Delta and the worker
\* went on to a second line, which it turned into a Delta too.
C9_Witness ==
    \E w \in Sessions :
        /\ Len(lines[w]) = 2 /\ Processed(w, 1) /\ ~Parsed(w, 1).ok
        /\ Payload(lines[w][1]) = P_Literal
        /\ IsLiteralDelta(w, 1)
        /\ "update" \in TypesOf(EventsOfLine(w, 2))

\* C10 as stated: a payload that parses but has not the expected shape
\* yields a Delta carrying the payload text.
C10_Original ==
    \A w \in Sessions : \A i \in 1..MaxLines :
        (Processed(w, i) /\ Parsed(w, i).ok /\ ~ExpectedShape(Parsed(w, i).v)) =>
            IsLiteralDelta(w, i)

\* C10 amended: a payload that parses but has not the expected shape, a
\* non-string non-null content apart, yields no signal at all: the line is
\* skipped and the loop goes on.
C10_OtherShapeIsSkipped ==
    \A w \in Sessions : \A i \in 1..MaxLines :
        (/\ Processed(w, i) /\ Parsed(w, i).ok
         /\ ~ExpectedShape(Parsed(w, i).v) /\ ~OddContent(Parsed(w, i).v)) =>
            EventsOfLine(w, i) = <<>>

\* C10 witness: a JSON number on the first line gave no signal and the
\* worker went on to turn the second line into a Delta.
C10_Witness ==
    \E w \in Sessions :
        /\ Len(lines[w]) = 2 /\ Payload(lines[w][1]) = P_Number
        /\ EventsOfLine(w, 1) = <<>>
        /\ "update" \in TypesOf(EventsOfLine(w, 2))

\* choices[0][field].content of a frame, empty when it has none
FieldContent(v, field) ==
    IF HasPath(v, field) /\ "content" \in DOMAIN v.f.choices.items[1].f[field].f
    THEN v.f.choices.items[1].f[field].f.content.s
    ELSE <<>>

\* A frame of the expected shape whose delta and message, when it has them,
\* are objects with a string content
WellFormedFrame(v) ==
    /\ ExpectedShape(v)
    /\ \A field \in {"delta", "message"} :
          field \in DOMAIN v.f.choices.items[1].f => ContentIs(v, field, {"str"})

\* The extracted text of a well-formed frame: the delta content when it is
\* there and not empty, the message content otherwise
FrameText(v) ==
    IF FieldContent(v, "delta") # <<>> THEN FieldContent(v, "delta")
    ELSE FieldContent(v, "message")

IsSentinel(raw_line) == raw_line # <<>> /\ Payload(raw_line) = DONE

WellFormedLine(raw_line) ==
    \/ raw_line = <<>>
    \/ IsSentinel(raw_line)
    \/ /\ JsonLoads(Payload(raw_line)).ok
       /\ WellFormedFrame(JsonLoads(Payload(raw_line)).v)

LineText(raw_line) ==
    IF raw_line = <<>> \/ IsSentinel(raw_line) THEN <<>>
    ELSE FrameText(JsonLoads(Payload(raw_line)).v)

\* The lines before the first sentinel
BeforeSentinel(ls) ==
    LET at == {i \in 1..Len(ls) : IsSentinel(ls[i])}
    IN IF at = {} THEN ls
       ELSE SubSeq(ls, 1, (CHOOSE i \in at : \A j \in at : i <= j) - 1)

ExpectedText(ls) == Join([i \in 1..Len(ls) |-> LineText(ls[i])])

\* A run over well-formed lines only, not cancelled, that emitted no Error
WellFormedRun(w) ==
    /\ Started(w) /\ ~wstop[w] /\ "error" \notin TypesOf(emitted[w])
    /\ \A i \in 1..Len(lines[w]) : WellFormedLine(lines[w][i])

\* C11: over a stream of well-formed frames, without cancellation or
\* transport error, the Delta texts concatenated are the extracted texts of
\* the frames before the first sentinel concatenated, in order; a frame with
\* no text and the lines from the sentinel on add nothing.
C11_DeltasAreTheFrameTexts ==
    \A w \in Sessions :
        WellFormedRun(w) =>
            Join(Deltas(emitted[w])) = ExpectedText(BeforeSentinel(lines[w]))

\* C11 witness: a frame with an empty delta content and a message content,
\* then the sentinel: the one Delta is the message content.
C11_Witness ==
    \E w \in Sessions :
        /\ WellFormedRun(w) /\ wexit[w] = "sentinel"
        /\ lines[w] = <<Mark \o P_EmptyDeltaMessage, Mark \o DONE>>
        /\ Deltas(emitted[w]) = << <<"m">> >>

\* The values of the progress signals worker w emitted, in order
ProgressValues(w) ==
    LET p == SelectSeq(emitted[w], LAMBDA e : e.type = "progress")
    IN [i \in 1..Len(p) |-> p[i].value]

\* C12: the Progress values of a session never decrease and each is an
\* integer from 0 to 100.
C12_ProgressNonDecreasingInRange ==
    \A w \in Sessions :
        /\ \A i \in 1..Len(ProgressValues(w)) : ProgressValues(w)[i] \in 0..100
        /\ \A i \in 1..(Len(ProgressValues(w)) - 1) :
              ProgressValues(w)[i] <= ProgressValues(w)[i + 1]

\* C12 witness: two deltas of 600 characters: 58 for the first, and for the
\* second, with 1200 characters counted, the estimate of 117 capped at 100.
C12_Witness ==
    \E w \in Sessions :
        /\ token_count[w] = 1200
        /\ ProgressValues(w) = <<58, 100>>

\* The contents of the Assistant turns of h, in order
AssistantContents(h) ==
    LET a == SelectSeq(h, LAMBDA t : t.role = "assistant")
    IN [i \in 1..Len(a) |-> a[i].content]

\* What the handling of a Finished did to the history: nothing, or one
\* Assistant turn appended, its content the cleaned buffer, not empty and not
\* the content of the latest Assistant turn before
AppendedAtMostOneNewTurn(pre, buf, post) ==
    \/ post = pre
    \/ /\ Len(post) = Len(pre) + 1
       /\ SubSeq(post, 1, Len(pre)) = pre
       /\ post[Len(post)].role = "assistant"
       /\ post[Len(post)].content = FinalText(buf)
       /\ post[Len(post)].content # <<>>
       /\ AssistantContents(pre) # <<>> =>
            AssistantContents(pre)[Len(AssistantContents(pre))] # post[Len(post)].content

\* C13: on_stream_finish appends an Assistant turn only when the cleaned
\* final text is not empty and differs from the content of the latest
\* Assistant turn; so the history never holds two Assistant turns of equal
\* content with no Assistant turn between them, and each handled Finished
\* appends at most one Assistant turn.
C13_NoRepeatedAssistantTurn ==
    /\ \A i \in 1..(Len(AssistantContents(history)) - 1) :
          AssistantContents(history)[i] # AssistantContents(history)[i + 1]
    /\ \A w \in Sessions :
          sess[w].nfin >= 1 =>
              AppendedAtMostOneNewTurn(sess[w].pre_hist, sess[w].pre_buf, sess[w].post_hist)

\* C13 witness: a Finished handled with a cleaned buffer that is not empty
\* and equals the latest Assistant turn: nothing was appended.
C13_Witness ==
    \E w \in Sessions :
        /\ sess[w].nfin >= 1
        /\ FinalText(sess[w].pre_buf) # <<>>
        /\ AssistantContents(sess[w].pre_hist) # <<>>
        /\ AssistantContents(sess[w].pre_hist)[Len(AssistantContents(sess[w].pre_hist))]
              = FinalText(sess[w].pre_buf)
        /\ sess[w].post_hist = sess[w].pre_hist

\* The Finished of session w has been handled and neither a Delta nor a
\* submission nor a reset has touched the buffer or the history since
JustFinished(w) ==
    /\ sess[w].nfin >= 1
    /\ history = sess[w].post_hist
    /\ current_ai_buffer = sess[w].pre_buf

\* C14: on_stream_finish run a second time for the same session, with no
\* Delta and no submission in between, appends no Assistant turn: it leaves
\* the history as its first run left it.
C14_SecondFinishChangesNothing ==
    \A w \in Sessions :
        JustFinished(w) => FinishHistory(history, current_ai_buffer) = history

\* C14 witness: the first run appended an Assistant turn to a history that
\* had one already, and a second run would append nothing.
C14_Witness ==
    \E w \in Sessions :
        /\ JustFinished(w)
        /\ AssistantContents(sess[w].pre_hist) # <<>>
        /\ Len(sess[w].post_hist) = Len(sess[w].pre_hist) + 1
        /\ FinishHistory(history, current_ai_buffer) = history

\* The texts of the Deltas emitted so far
DeltaTexts ==
    UNION { {emitted[w][i].text : i \in {j \in 1..Len(emitted[w]) : emitted[w][j].type = "update"}}
            : w \in Sessions }

\* C15: _strip_role_prefixes is idempotent: applied to its own output it
\* changes nothing, for every text, a text that begins with two role labels
\* included.
C15_StripIsIdempotent ==
    \A t \in DeltaTexts :
        _strip_role_prefixes(_strip_role_prefixes(t)) = _strip_role_prefixes(t)

\* The positions where a sentence unit of t ends: the last character of
\* each run of delimiters, and the end of the text
UnitEnds(t) ==
    {j \in 1..Len(t) : j = Len(t) \/ (IsDelim(t[j]) /\ ~IsDelim(t[j + 1]))}

\* The n-th unit of t as it stands in t: a sentence and the run of
\* delimiters after it
RawUnit(t, n) ==
    LET e == CHOOSE j \in UnitEnds(t) : Cardinality({x \in UnitEnds(t) : x <= j}) = n
        b == {x \in UnitEnds(t) : x < e}
    IN SubSeq(t, (IF b = {} THEN 0 ELSE CHOOSE x \in b : \A y \in b : y <= x) + 1, e)

\* A unit trimmed: its sentence trimmed, the delimiters after it, all trimmed
TrimmedUnit(u) ==
    LET n == Cardinality({i \in 1..Len(u) : ~IsDelim(u[i])})
    IN Trim(Trim(SubSeq(u, 1, n)) \o SubSeq(u, n + 1, Len(u)))

\* The non-empty trimmed units of t, in order
Units(t) ==
    SelectSeq([n \in 1..Cardinality(UnitEnds(t)) |-> TrimmedUnit(RawUnit(t, n))],
              LAMBDA u : u # <<>>)

\* The units of t without those equal to the unit before them
WithoutRepeats(t) ==
    LET u == Units(t)
        kept == {n \in 1..Len(u) : n = 1 \/ u[n] # u[n - 1]}
    IN Join([n \in 1..Cardinality(kept) |->
                u[CHOOSE m \in kept : Cardinality({x \in kept : x <= m}) = n]])

\* C16: _collapse_consecutive_sentences drops a sentence unit exactly when
\* it is identical, after trimming, to the unit kept just before it and
\* keeps every other non-empty unit in order: of A.A.B. it makes A.B., and
\* A.B.A. it leaves as it is (the full stop being U+3002).
C16_CollapseDropsOnlyNeighbouringRepeats ==
    \A t \in DeltaTexts :
        /\ _collapse_consecutive_sentences(t) = WithoutRepeats(t)
        /\ t = <<"A", "U+3002", "A", "U+3002", "B", "U+3002">> =>
              _collapse_consecutive_sentences(t) = <<"A", "U+3002", "B", "U+3002">>
        /\ t = <<"A", "U+3002", "B", "U+3002", "A", "U+3002">> =>
              _collapse_consecutive_sentences(t) = t

\* C16 witness: the reply A.B.A. has been cleaned and stored as it came.
C16_Witness ==
    \E w \in Sessions :
        /\ sess[w].nfin >= 1
        /\ Deltas(emitted[w]) = << <<"A", "U+3002", "B", "U+3002", "A", "U+3002">> >>
        /\ AssistantContents(history) = << <<"A", "U+3002", "B", "U+3002", "A", "U+3002">> >>

\* C18: a confirmed clear_history discards the history and any open
\* placeholder, whatever the state: right after it the history is empty and
\* no placeholder is open, and the Finished of the session that was in
\* flight at the reset appends no Assistant turn when it is handled.
C18_ResetDiscardsTheSessionInFlight ==
    /\ status = "cleared" => (history = <<>> /\ Placeholders(display) = 0)
    /\ \A w \in Sessions :
          (sess[w].reset /\ sess[w].nfin >= 1) => sess[w].post_hist = sess[w].pre_hist

\* The types of the signals worker w emitted after its stop flag was set
TypesAfterStop(w) ==
    LET after == SubSeq(emitted[w], sess[w].stop_at + 1, Len(emitted[w]))
    IN [i \in 1..Len(after) |-> after[i].type]

\* C20 as stated: once the stop flag is set the worker emits no Delta and no
\* Progress, and the next signal it emits is Finished.
C20_Original ==
    \A w \in Sessions :
        sess[w].stop_at # -1 => TypesAfterStop(w) \in {<<>>, <<"finish">>}

\* C20 amended: once the stop flag is set the worker emits no Delta and no
\* Progress for any line it gets afterwards; it emits Finished and nothing
\* else, or, when the request or the read of the stream fails before it
\* gets to its next stop check, one Error and then Finished.
C20_NothingButTheEndAfterStop ==
    \A w \in Sessions :
        sess[w].stop_at # -1 =>
            /\ TypesAfterStop(w) \in {<<>>, <<"finish">>, <<"error", "finish">>}
            /\ wexit[w] = "stop" => TypesAfterStop(w) = <<"finish">>
            /\ TypesAfterStop(w) = <<"error", "finish">> =>
                  wexit[w] \in {"request", "http", "raise"}

\* C20 witness: the flag was set after the Delta and the Progress of the
\* first line; the worker saw it when the next line came and emitted
\* Finished only.
C20_Witness ==
    \E w \in Sessions :
        /\ sess[w].stop_at = 2 /\ wexit[w] = "stop"
        /\ "update" \in TypesOf(EventsOfLine(w, 1))
        /\ Len(lines[w]) = 1
        /\ TypesAfterStop(w) = <<"finish">>

\* The objects a models response lists: those of its data list, or its own
\* when it is a bare list
ListedItems(body) ==
    IF body.t = "arr" THEN body.items
    ELSE IF body.t = "obj" /\ "data" \in DOMAIN body.f /\ body.f.data.t = "arr"
    THEN body.f.data.items
    ELSE <<>>

\* An object with an id or a name that is not empty
HasName(item) ==
    /\ item.t = "obj"
    /\ \/ "id" \in DOMAIN item.f /\ Truthy(item.f.id)
       \/ "name" \in DOMAIN item.f /\ Truthy(item.f.name)

\* {data: [objects with id or name]} or a bare list of such objects, with
\* at least one name to read
ReadableModels(resp) ==
    /\ resp.outcome = "ok"
    /\ \E i \in 1..Len(ListedItems(resp.body)) : HasName(ListedItems(resp.body)[i])

\* C19 as stated: fetch_models_from_api returns the empty list on every
\* failure and every response of another shape, and the caller falls back
\* to the saved or default list exactly then.
C19_Original ==
    /\ ~ReadableModels(startup.response) =>
          fetch_models_from_api(startup.response) = <<>>
    /\ startup.source # "api" <=> fetch_models_from_api(startup.response) = <<>>

\* C19 amended: the empty list on a failure, on JSON that is neither an
\* object nor a list, and on a list without a readable name; for an object
\* without a readable name its top-level keys as names (none for {}); names
\* read from the items otherwise.  The caller falls back exactly when the
\* list is empty or holds a name that is not a string.
C19_FetchedModels ==
    LET resp == startup.response
        r == fetch_models_from_api(resp)
    IN /\ resp.outcome # "ok" => r = <<>>
       /\ (resp.outcome = "ok" /\ resp.body.t \notin {"obj", "arr"}) => r = <<>>
       /\ (resp.outcome = "ok" /\ resp.body.t = "arr" /\ ~ReadableModels(resp)) => r = <<>>
       /\ (resp.outcome = "ok" /\ resp.body.t = "obj" /\ ~ReadableModels(resp)) =>
             r = [i \in 1..Len(resp.body.keys) |-> JStr(<<resp.body.keys[i]>>)]
       /\ ReadableModels(resp) =>
             /\ r # <<>>
             /\ \A i \in 1..Len(r) :
                   \E j \in 1..Len(ListedItems(resp.body)) :
                       /\ HasName(ListedItems(resp.body)[j])
                       /\ r[i] \in {ListedItems(resp.body)[j].f[k] :
                                      k \in DOMAIN ListedItems(resp.body)[j].f \cap {"id", "name"}}
       /\ startup.source # "api" <=>
             (r = <<>> \/ \E i \in 1..Len(r) : r[i].t # "str")

\* C19 witness: the endpoint answered {"data": [], "object": "list"}; the
\* model box was filled with the names data and object, not with the saved
\* or default list, and a name has been saved since.
C19_Witness ==
    /\ startup.response = Response("ok", DataObj(<<>>))
    /\ startup.source = "api"
    /\ SubSeq(model_box, 1, 2) = << <<"data">>, <<"object">> >>
    /\ Len(model_box) = 3

\* The texts of the Deltas emitted and not yet handled
QueuedTexts ==
    {queue[i].text : i \in {j \in 1..Len(queue) : queue[j].type = "update"}}

\* C17: the output of _format_display_text holds no '<' and no '>' that
\* comes from the input: each one of the input is there as an entity only
\* or not at all; <script>x</script> comes out escaped, and a fenced x<y
\* comes out escaped inside the pre/code wrapper.  (In an output the tags
\* the function writes are single elements; an element "<" or ">" is one
\* copied from the input.)
C17_NoAngleBracketFromInput ==
    \A t \in QueuedTexts :
        LET out == _format_display_text(t)
        IN /\ \A i \in 1..Len(out) : out[i] \notin {"<", ">"}
           /\ t = ScriptText =>
                 out = <<"&lt;", "script", "&gt;", "x", "&lt;", "/script", "&gt;">>
           /\ t = Chars(FencedText) =>
                 out = <<"<pre style=..><code>", "x", "&lt;", "y", "</code></pre>">>

\* C17 witness: the reply was a fenced x<y; it is in the history as it came
\* and is shown as the pre/code block with the entity in it.
C17_Witness ==
    \E w \in Sessions :
        /\ sess[w].nfin >= 1
        /\ AssistantContents(history) = <<Chars(FencedText)>>
        /\ _format_display_text(history[Len(history)].content) =
              <<"<pre style=..><code>", "x", "&lt;", "y", "</code></pre>">>

\* The signals of worker w, without the line stamps
SignalsOf(w) ==
    [i \in 1..Len(emitted[w]) |-> [type |-> emitted[w][i].type, text |-> emitted[w][i].text]]

\* C21: a session whose request raised, or was answered with a status other
\* than 200, has emitted exactly one Error that carries a message, then
\* Finished, and no Delta and no Progress; and a session that has made its
\* request never gets back to the point where it makes one.
C21_FailedRequestEndsTheSession ==
    /\ [](\A w \in Sessions :
            wexit[w] \in {"request", "http"} =>
                /\ wpc[w] = "done"
                /\ \E msg \in {MsgRequestFailed, MsgHttp} :
                      /\ msg # <<>>
                      /\ SignalsOf(w) = << [type |-> "error", text |-> msg],
                                           [type |-> "finish", text |-> <<>>] >>)
    /\ [][\A w \in Sessions : wpc[w] # "post" /\ Started(w) => wpc'[w] # "post"]_vars

\* C21 witness: the server answered the request with a status other than
\* 200; the session emitted its Error with the HTTP message, then Finished.
C21_Witness ==
    \E w \in Sessions :
        /\ wexit[w] = "http" /\ wpc[w] = "done"
        /\ SignalsOf(w) = << [type |-> "error", text |-> MsgHttp],
                             [type |-> "finish", text |-> <<>>] >>

\* A unit as the split leaves it: its sentence trimmed, then the run of
\* delimiters that followed it in the text, untouched
UnitWithDelimiters(u) ==
    LET n == Cardinality({i \in 1..Len(u) : ~IsDelim(u[i])})
    IN Trim(SubSeq(u, 1, n)) \o SubSeq(u, n + 1, Len(u))

\* The kept units of t (not empty, not equal to the unit before them), each
\* with its delimiters, joined in order
WithDelimiters(t) ==
    LET raw == SelectSeq([n \in 1..Cardinality(UnitEnds(t)) |-> RawUnit(t, n)],
                         LAMBDA u : TrimmedUnit(u) # <<>>)
        kept == {n \in 1..Len(raw) :
                    n = 1 \/ TrimmedUnit(raw[n]) # TrimmedUnit(raw[n - 1])}
    IN Join([n \in 1..Cardinality(kept) |->
                UnitWithDelimiters(raw[CHOOSE m \in kept : Cardinality({x \in kept : x <= m}) = n])])

\* C22: _collapse_consecutive_sentences keeps each delimiter run with the
\* unit before it: its output is the kept units in order, each followed by
\* the punctuation or line breaks that followed it in the input, so a line
\* break between two kept sentences is still there.
C22_CollapseKeepsDelimiters ==
    \A t \in DeltaTexts :
        _collapse_consecutive_sentences(t) = WithDelimiters(t)

\* C23: when the window is closed while a worker is running, the worker is
\* first asked to stop, closeEvent then waits for it, and terminate() is
\* called only on a worker that is still running after the wait: every
\* worker that runs once closeEvent has begun has been asked to stop, and a
\* terminated worker had been asked to stop and had not ended.
C23_ShutdownStopsWaitsThenTerminates ==
    /\ gui # "open" => \A w \in Sessions : IsRunning(w) => wstop[w]
    /\ \A w \in Sessions :
          wpc[w] = "terminated" => (gui = "closed" /\ wstop[w] /\ wexit[w] = "")

\* The types of the signals worker w has emitted, in order
SignalTypes(w) == [i \in 1..Len(emitted[w]) |-> emitted[w][i].type]

\* C24: in the signals of every session Finished is the last one: nothing is
\* emitted after it, a run() that has ended has emitted it, and an Error
\* occurs at most once and has Finished right after it.
C24_FinishedIsLast ==
    \A w \in Sessions :
        LET T == SignalTypes(w)
        IN /\ \A i \in 1..Len(T) : T[i] = "finish" => i = Len(T)
           /\ wpc[w] = "done" => (T # <<>> /\ T[Len(T)] = "finish")
           /\ Cardinality({i \in 1..Len(T) : T[i] = "error"}) <= 1
           /\ \A i \in 1..Len(T) :
                 T[i] = "error" => (i < Len(T) /\ T[i + 1] = "finish")

\* C24 witness: after the Delta and the Progress of its first line the read
\* of the stream raised; the session emitted its Error and then, last,
\* Finished.
C24_Witness ==
    \E w \in Sessions :
        /\ wpc[w] = "done"
        /\ SignalTypes(w) = <<"update", "progress", "error", "finish">>

\* C25: the Assistant turn appended when the Finished of a session is
\* handled is made of the Deltas of that session and of nothing else: the
\* buffer the handler cleans holds the accumulated Deltas of the session,
\* none of another session and none missing, and the history gets that
\* cleaned text as one Assistant turn or is left as it was.
C25_AssistantTurnIsOfItsOwnSession ==
    \A w \in Sessions :
        sess[w].nfin >= 1 =>
            /\ FinalText(sess[w].pre_buf) = SessionText(w)
            /\ sess[w].post_hist \in
                  { sess[w].pre_hist,
                    Append(sess[w].pre_hist, Turn("assistant", SessionText(w))) }

\* C26: self.worker refers to every worker that is still running, so that
\* on_stop and closeEvent reach it: no submission has replaced the
\* reference to a running worker and no handling of a Finished has set it
\* to None while a worker runs.
C26_WorkerRefersToTheRunningWorker ==
    \A w \in Sessions : IsRunning(w) => worker = w

====
